---- MODULE Spec2Model ----
(***************************************************************************)
(* A model of setImmediate.js: the task registry (tasks), the capability   *)
(* probes, the three installed setImmediate implementations and the host's *)
(* event loop that delivers their triggers.                                *)
(***************************************************************************)
EXTENDS Integers, Sequences, FiniteSets, TLC

\* Number of setImmediate calls a behaviour may make.
MaxHandle == 3
\* Number of invocations after which a behaviour makes no further one other
\* than by delivering an event that setImmediate armed.
MaxRuns == 2
\* Number of setImmediate calls of a behaviour whose handler is source text.
MaxTexts == 1

----------------------------------------------------------------------------
(* JavaScript values.  Every value is a record of the same shape so that   *)
(* any two of them can be compared: a type tag (typeof), a number and a    *)
(* string held as a sequence of characters.                                *)

Num(n) == [type |-> "number", n |-> n, chars |-> <<>>]
Str(s) == [type |-> "string", n |-> 0, chars |-> s]
Fn(name) == [type |-> "function", n |-> 0, chars |-> <<name>>]
Obj == [type |-> "object", n |-> 0, chars |-> <<>>]
Undefined == [type |-> "undefined", n |-> 0, chars |-> <<>>]

Digits == <<"0", "1", "2", "3", "4", "5", "6", "7", "8", "9">>

\* Number.prototype.toString for a non-negative integer.
RECURSIVE NumberToString(_)
NumberToString(n) ==
    IF n < 10 THEN <<Digits[n + 1]>>
    ELSE NumberToString(n \div 10) \o <<Digits[(n % 10) + 1]>>

\* The string a value converts to, in "" + v and as the property name under
\* which obj[v] is looked up: a function converts to its source text.
ToPropertyKey(v) ==
    IF v.type = "number" THEN NumberToString(v.n)
    ELSE IF v.type = "string" THEN v.chars
    ELSE IF v.type = "function" THEN <<"function ">> \o v.chars \o <<"() {}">>
    ELSE IF v.type = "object" THEN <<"[object Object]">>
    ELSE <<"undefined">>

\* String.prototype.substring(0, len) and substring(from).
SubstringTo(s, len) == SubSeq(s, 1, IF len < Len(s) THEN len ELSE Len(s))
SubstringFrom(s, from) == SubSeq(s, from + 1, Len(s))

\* Array.prototype.slice.call(args, from).
Slice(args, from) == SubSeq(args, from + 1, Len(args))

\* obj[key] = value and delete obj[key] on an object used as a map.
Put(obj, key, value) ==
    [k \in DOMAIN obj \cup {key} |-> IF k = key THEN value ELSE obj[k]]
Delete(obj, key) == [k \in DOMAIN obj \ {key} |-> obj[k]]

EmptyObject == [k \in {} |-> Undefined]

\* Names every plain object inherits from Object.prototype, and the value
\* found under them: a built-in function, or Object.prototype itself under
\* __proto__; neither is undefined.
ObjectPrototype ==
    { <<"constructor">>, <<"toString">>, <<"toLocaleString">>, <<"valueOf">>,
      <<"hasOwnProperty">>, <<"isPrototypeOf">>, <<"propertyIsEnumerable">>,
      <<"__proto__">>, <<"__defineGetter__">>, <<"__defineSetter__">>,
      <<"__lookupGetter__">>, <<"__lookupSetter__">> }
BuiltIn == [type |-> "function", n |-> 0, chars |-> <<"[native code]">>]
Inherited(key) ==
    IF key = <<"__proto__">>
    THEN [type |-> "object", n |-> 0, chars |-> <<"Object.prototype">>]
    ELSE BuiltIn

\* obj[key] of a plain object: its own property, else what it inherits, else
\* undefined.
Get(obj, key) ==
    IF key \in DOMAIN obj THEN obj[key]
    ELSE IF key \in ObjectPrototype THEN Inherited(key)
    ELSE Undefined

\* if (v): the values met here are objects, functions and undefined.
Truthy(v) == v # Undefined

\* The number a string of digits stands for.
RECURSIVE StringToNumber(_)
StringToNumber(chars) ==
    IF chars = <<>> THEN 0
    ELSE StringToNumber(SubSeq(chars, 1, Len(chars) - 1)) * 10
         + (CHOOSE d \in 0..9 : Digits[d + 1] = chars[Len(chars)])
IsDigits(chars) ==
    /\ chars # <<>>
    /\ \A i \in DOMAIN chars : \E d \in 0..9 : Digits[d + 1] = chars[i]
\* A decimal integer literal of strict code: digits with no leading zero,
\* or the one digit 0.  Any other run of digits is a SyntaxError.
IsNumberLiteral(chars) ==
    IsDigits(chars) /\ (Len(chars) = 1 \/ chars[1] # "0")
\* A decimal literal with a point, as 1.5, 0.5, .5 and 1. are: before the
\* point an integer literal or nothing, after it digits or nothing, and not
\* nothing on both sides.
IsFractionLiteral(chars) ==
    \E i \in DOMAIN chars :
        LET whole == SubSeq(chars, 1, i - 1)
            fraction == SubSeq(chars, i + 1, Len(chars))
        IN /\ chars[i] = "."
           /\ whole = <<>> \/ IsNumberLiteral(whole)
           /\ fraction = <<>> \/ IsDigits(fraction)
           /\ whole # <<>> \/ fraction # <<>>
\* Text made of digits and points only.
IsNumeric(chars) ==
    /\ chars # <<>>
    /\ \A i \in DOMAIN chars : chars[i] = "." \/ IsDigits(<<chars[i]>>)

\* A sequence without its i-th element.
RemoveAt(q, i) == SubSeq(q, 1, i - 1) \o SubSeq(q, i + 1, Len(q))

----------------------------------------------------------------------------
(* The host: the global object as the script finds it.                     *)

\* Outcomes of Math.random(), as the text appended to the message prefix.
RandomTexts == {<<"0", ".", "5">>}
\* Outcomes of its later calls, each another number.
LaterRandomTexts == { <<"0", ".", "2", Digits[d + 1]>> : d \in 1..MaxTexts + 1 }

AllHosts ==
    [setImmediate : BOOLEAN, clearImmediate : BOOLEAN,
     msSetImmediate : BOOLEAN, msClearImmediate : BOOLEAN,
     MessageChannel : BOOLEAN, postMessage : BOOLEAN, importScripts : BOOLEAN,
     postMessageSync : BOOLEAN, onmessage : {"undefined", "hostListener"},
     portRequiresMessage : BOOLEAN,
     protoHasSetTimeout : BOOLEAN, random : RandomTexts]

\* A host with none of the capabilities: only timers.
TimerHost ==
    [setImmediate |-> FALSE, clearImmediate |-> FALSE,
     msSetImmediate |-> FALSE, msClearImmediate |-> FALSE,
     MessageChannel |-> FALSE, postMessage |-> FALSE, importScripts |-> FALSE,
     postMessageSync |-> FALSE, onmessage |-> "undefined",
     portRequiresMessage |-> FALSE,
     protoHasSetTimeout |-> TRUE, random |-> <<"0", ".", "5">>]

\* The hosts whose scheduling is explored, one per installed tier: timers
\* (postMessage is synchronous), postMessage and MessageChannel, the last
\* with a port whose postMessage accepts a call without a message and with
\* one whose postMessage requires it.
SchedulerHosts ==
    { [TimerHost EXCEPT !.postMessage = TRUE, !.postMessageSync = TRUE],
      [TimerHost EXCEPT !.postMessage = TRUE, !.onmessage = "hostListener"],
      [TimerHost EXCEPT !.postMessage = TRUE, !.MessageChannel = TRUE],
      [TimerHost EXCEPT !.postMessage = TRUE, !.MessageChannel = TRUE,
                        !.portRequiresMessage = TRUE] }

\* The arguments objects setImmediate is called with.
A == Str(<<"a">>)
B == Num(7)
Callback == Fn("fn")
\* Handlers that are source text.  eval runs the text inside Task.prototype.run,
\* where the registry's variables are in scope: these texts use them.
ResetText == Str(<<"nextHandle = ", "1">>)
DeleteText == Str(<<"delete tasksByHandle[", "2", "]">>)
ClearText == Str(<<"tasksByHandle = {}">>)
CopyText == Str(<<"tasksByHandle[", "2", "] = tasksByHandle[", "3", "]">>)
ArgsText == Str(<<"tasksByHandle[", "2", "].args = []">>)
IncrementText == Str(<<"nextHandle++">>)
\* The variables and functions of the script's outer closure are in scope
\* too, and so are the functions the script installed on the global object.
GlobalText == Str(<<"global = null">>)
InstallText == Str(<<"installPostMessageImplementation(attachTo)">>)
CancelText == Str(<<"clearImmediate(", "2", ")">>)
\* A text that names none of them.
SourceText == Str(<<"void 0">>)
SetImmediateCalls ==
    { <<Callback, A, B>>, <<ResetText, A>>, <<CopyText>>, <<GlobalText>>,
      <<InstallText>> }
\* The calls made when the registry is driven directly.
RegistryCalls ==
    { <<Callback>>, <<Callback, A, B>>, <<DeleteText>>, <<ClearText, A>>,
      <<ArgsText>>, <<SourceText>>, <<IncrementText>>, <<CancelText>> }

VARIABLES
    host,           \* the host's capabilities
    pc,             \* "load" before the script has run, "ready" after
    attachTo,       \* the object the functions are attached to
    installed,      \* what setImmediate and clearImmediate are bound to
    onmessage,      \* global.onmessage
    listeners,      \* registrations of onGlobalMessage on global
    probes,         \* probe messages posted by canUsePostMessage
    MESSAGE_PREFIX, \* the prefix of the postMessage implementation in use
    prefixes,       \* the MESSAGE_PREFIX of each registered onGlobalMessage
    global,         \* the script's variable global: what it refers to
    nextHandle,     \* tasks: the next handle
    tasksByHandle,  \* tasks: property name -> Task
    queue,          \* the host's armed timers, ports and posted messages
    stack,          \* "idle", "script" (user code of a turn), "callback"
    running,        \* the property name of the task whose run() is executing
    raised,         \* what the latest call into the script's code raised
    minted,         \* k -> the handle the k-th setImmediate call registered
    returned,       \* k -> the handle the k-th setImmediate call returned
    requested,      \* k -> the arguments of the k-th setImmediate call
    calls,          \* k -> the invocations of the handler of the k-th call
    cancelled       \* the calls whose task was cleared before it was invoked

\* The k-th setImmediate call threw and returned no handle.
NoHandle == 0

history == <<minted, returned, requested>>
\* What the host holds of the installation, and the variables of the
\* script's closures that the installation sets.
hostVars == <<host, attachTo, onmessage, probes>>
closureVars == <<installed, listeners, MESSAGE_PREFIX, prefixes, global>>
installVars == <<hostVars, closureVars>>
\* What a call of tasks.runIfPresent can change.
runVars == <<calls, stack, running, nextHandle, tasksByHandle, closureVars,
            cancelled>>
vars == <<host, pc, attachTo, installed, onmessage, listeners, probes,
          MESSAGE_PREFIX, prefixes, global, nextHandle, tasksByHandle, queue,
          stack, running, raised, history, calls, cancelled>>

----------------------------------------------------------------------------
(* Capability probes and installation.                                     *)

\* The events the host holds for later delivery.
Timer(handle) == [kind |-> "timer", handle |-> handle, source |-> "global",
                  data |-> Undefined]
Port(handle) == [kind |-> "port", handle |-> handle, source |-> "port2",
                 data |-> Undefined]
Message(source, data) == [kind |-> "message", handle |-> 0, source |-> source,
                          data |-> data]

\* The guard testing the Microsoft name instead.
hasSetImmediateWrongName(h) == h.msSetImmediate

\* if (!global.setImmediate): the test that guards the whole installation.
hasSetImmediate(h) == h.setImmediate

hasMicrosoftImplementation(h) == h.msSetImmediate /\ h.msClearImmediate

canUseMessageChannel(h) == h.MessageChannel

\* The probe with a flag its listener never clears.
canUsePostMessageFlagStuck(h, slot) ==
    IF ~h.postMessage \/ h.importScripts
    THEN [result |-> FALSE, onmessage |-> slot, sent |-> 0, held |-> <<>>]
    ELSE [result |-> TRUE, onmessage |-> slot, sent |-> 1,
          held |-> IF h.postMessageSync THEN <<>>
                   ELSE <<Message("global", Str(<<>>))>>]

\* The probe that leaves its own listener in global.onmessage.
canUsePostMessageNoRestore(h, slot) ==
    IF ~h.postMessage \/ h.importScripts
    THEN [result |-> FALSE, onmessage |-> slot, sent |-> 0, held |-> <<>>]
    ELSE [result |-> ~h.postMessageSync, onmessage |-> "probeListener",
          sent |-> 1,
          held |-> IF h.postMessageSync THEN <<>>
                   ELSE <<Message("global", Str(<<>>))>>]

\* The probe: its answer, what it leaves in global.onmessage, the messages it
\* posted and those of them the host still holds.
canUsePostMessage(h, slot) ==
    IF ~h.postMessage \/ h.importScripts
    THEN [result |-> FALSE, onmessage |-> slot, sent |-> 0, held |-> <<>>]
    ELSE LET oldOnMessage == slot
             \* global.onmessage = function () { ... = false; }
             probeSlot == "probeListener"
             \* global.postMessage("", "*"): a synchronous host calls the
             \* listener in the slot before postMessage returns
             calledInside == IF h.postMessageSync THEN probeSlot ELSE "none"
             postMessageIsAsynchronous == calledInside # "probeListener"
         IN [result |-> postMessageIsAsynchronous,
             onmessage |-> oldOnMessage,
             sent |-> 1,
             held |-> IF h.postMessageSync THEN <<>>
                      ELSE <<Message("global", Str(<<>>))>>]

\* typeof Object.getPrototypeOf === "function" && "setTimeout" in prototype
AttachTarget(h) == IF h.protoHasSetTimeout THEN "prototype" ELSE "global"

PrefixLiteral == <<"com.bn.NobleJS.setImmediate">>

\* The tier the installation block takes, in the order of its tests.
SelectedTier(h, probe) ==
    IF hasMicrosoftImplementation(h) THEN "msSetImmediate"
    ELSE IF canUseMessageChannel(h) THEN "MessageChannel"
    ELSE IF probe.result THEN "postMessage"
    ELSE "setTimeout"

\* The registrations of onGlobalMessage on global after the implementation
\* of the tier is installed: installPostMessageImplementation adds one.
listenersAfterInstall(tier, n) == IF tier = "postMessage" THEN n + 1 ELSE n

\* The script's top level: the state it leaves behind.
Install ==
    /\ pc = "load"
    /\ pc' = "ready"
    /\ stack' = "script"
    /\ UNCHANGED <<host, global, nextHandle, tasksByHandle, running, raised,
                   history, calls, cancelled>>
    /\ IF hasSetImmediate(host)
       THEN UNCHANGED <<attachTo, installed, onmessage, listeners, probes,
                        MESSAGE_PREFIX, prefixes, queue>>
       ELSE LET probed == ~hasMicrosoftImplementation(host)
                          /\ ~canUseMessageChannel(host)
                probe == IF probed THEN canUsePostMessage(host, onmessage)
                         ELSE [result |-> FALSE, onmessage |-> onmessage,
                               sent |-> 0, held |-> <<>>]
                tier == SelectedTier(host, probe)
            IN /\ attachTo' = AttachTarget(host)
               /\ onmessage' = probe.onmessage
               /\ probes' = probes + probe.sent
               /\ queue' = queue \o probe.held
               /\ installed' =
                     IF tier = "msSetImmediate"
                     THEN [setImmediate |-> "msSetImmediate",
                           clearImmediate |-> "msClearImmediate"]
                     ELSE [setImmediate |-> tier,
                           clearImmediate |-> "tasks.remove"]
               /\ listeners' = listenersAfterInstall(tier, listeners)
               /\ MESSAGE_PREFIX' = IF tier = "postMessage"
                                    THEN PrefixLiteral \o host.random
                                    ELSE MESSAGE_PREFIX
               /\ prefixes' = IF tier = "postMessage"
                              THEN Append(prefixes,
                                          PrefixLiteral \o host.random)
                              ELSE prefixes

InitOn(hosts) ==
    /\ host \in hosts
    /\ pc = "load"
    /\ attachTo = "none"
    /\ installed = [setImmediate |-> IF host.setImmediate THEN "native"
                                     ELSE "undefined",
                    clearImmediate |-> IF host.clearImmediate THEN "native"
                                       ELSE "undefined"]
    /\ onmessage = host.onmessage
    /\ listeners = 0
    /\ probes = 0
    /\ MESSAGE_PREFIX = <<>>
    /\ prefixes = <<>>
    /\ global = "global"
    /\ nextHandle = 1
    /\ tasksByHandle = EmptyObject
    /\ queue = <<>>
    /\ stack = "script"
    /\ running = <<>>
    /\ raised = "none"
    /\ minted = <<>>
    /\ returned = <<>>
    /\ requested = <<>>
    /\ calls = <<>>
    /\ cancelled = {}

----------------------------------------------------------------------------
(* tasks: the registry.                                                    *)

\* new Task(handler, args): the arguments are copied.
Task(handler, args) == [handler |-> handler, args |-> Slice(args, 0)]

\* A Task as the registry holds it: with the number of the setImmediate call
\* that created it, by which the same Task is recognised wherever it is kept.
Created(task, k) ==
    [handler |-> task.handler, args |-> task.args, call |-> k]
IsTask(v) == "handler" \in DOMAIN v

\* The Task a handler runs as, seen as a value.
TaskObject == [type |-> "object", n |-> 0, chars |-> <<"Task">>]

\* Task.prototype.run: the invocation it makes of the handler.  A handler
\* that is not a function is converted to text and given to eval, a direct
\* eval whose receiver is the Task.
Task_run(task) ==
    IF task.handler.type = "function"
    THEN [mode |-> "apply", callee |-> task.handler, thisArg |-> Undefined,
          args |-> task.args]
    ELSE [mode |-> "eval", callee |-> Str(ToPropertyKey(task.handler)),
          thisArg |-> TaskObject, args |-> <<>>]

\* The names an evaluated text resolves on every host: those of
\* Task.prototype.run and of the registry's closure, those of the script's
\* outer closure with its seven function declarations, and the globals the
\* script itself relies on.
NamesInScope ==
    { "this", "arguments", "scriptSource", "nextHandle", "tasksByHandle",
      "Task", "tasks", "global", "attachTo",
      "hasMicrosoftImplementation", "canUseMessageChannel",
      "canUsePostMessage", "aliasMicrosoftImplementation",
      "installMessageChannelImplementation",
      "installPostMessageImplementation", "installSetTimeoutImplementation",
      "undefined", "Object", "Array", "Math", "eval", "setTimeout" }
\* The names the global object of host h adds to them: the capabilities it
\* has, and the two functions once something is bound to them.
HostNames(h, bound) ==
    { name \in {"msSetImmediate", "msClearImmediate", "MessageChannel",
                "postMessage", "importScripts"} : h[name] }
    \cup { name \in {"setImmediate", "clearImmediate"} :
             bound[name] # "undefined" }
\* Names that nothing defines, on any host of the model.
Undeclared == {"a"}
\* The names of the functions given as handlers.
FunctionNames == {"fn"}

\* Texts that evaluate without throwing and change nothing: the empty text,
\* void 0, a number literal, a name that resolves, the source text of a
\* function.
IsHarmless(t, names) ==
    \/ t = <<>>
    \/ t = <<"void 0">>
    \/ IsNumberLiteral(t)
    \/ IsFractionLiteral(t)
    \/ Len(t) = 1 /\ t[1] \in names
    \/ \E name \in FunctionNames : t = ToPropertyKey(Fn(name))

\* Texts that throw and change nothing: what is no program of strict code
\* (the text of an object, digits and points that are no literal), a name
\* nothing defines, a throw statement.
Throws(t) ==
    \/ t = <<"[object Object]">>
    \/ IsNumeric(t) /\ ~IsNumberLiteral(t) /\ ~IsFractionLiteral(t)
    \/ Len(t) = 1 /\ t[1] \in Undeclared
    \/ Len(t) >= 2 /\ t[1] = "throw " /\ IsNumeric(Tail(t))

\* The calls clearImmediate(h) clears before they were invoked, in registry
\* byHandle, while the task of call self is being run.
CancelledBy(byHandle, h, self) ==
    LET task == Get(byHandle, NumberToString(h))
    IN IF /\ IsTask(task)
          /\ task.call # self
          /\ minted[task.call] = h
          /\ calls[task.call] = <<>>
       THEN {task.call} ELSE {}

\* What the text evaluated by the run of a task finds in scope: the variables
\* of the registry and of the script's outer closure, the host, a number
\* Math.random() would yield; with it the calls cleared so far and whether
\* the text threw or is outside the statements described below.
Scope(task, random) ==
    [nextHandle |-> nextHandle, tasksByHandle |-> tasksByHandle,
     global |-> global, installed |-> installed, listeners |-> listeners,
     prefixes |-> prefixes, MESSAGE_PREFIX |-> MESSAGE_PREFIX,
     host |-> host, random |-> random, self |-> task.call,
     cancelled |-> cancelled, threw |-> FALSE, understood |-> TRUE]

\* eval(scriptSource) inside Task.prototype.run, a direct eval of strict
\* code: the scope the statement leaves.  The statements described are those
\* below, written with integer literals, the harmless texts and the texts
\* that throw; a run of digits that is no literal is a SyntaxError.  Of any
\* other text nothing is said: it is marked as not understood, and no step
\* schedules or runs it.  A Task is one object however many names it is kept
\* under, so assigning its args shows under every one.
Eval(scriptSource, scope) ==
    LET t == scriptSource.chars
        n == Len(t)
        byHandle == scope.tasksByHandle
        names == NamesInScope \cup HostNames(scope.host, scope.installed)
        throws == [scope EXCEPT !.threw = TRUE]
        unknown == [scope EXCEPT !.understood = FALSE]
    IN IF n >= 2 /\ t[1] = "nextHandle = " /\ IsDigits(SubSeq(t, 2, n))
       THEN IF IsNumberLiteral(SubSeq(t, 2, n))
            THEN [scope EXCEPT !.nextHandle = StringToNumber(SubSeq(t, 2, n))]
            ELSE throws
       ELSE IF t = <<"nextHandle++">>
       THEN [scope EXCEPT !.nextHandle = @ + 1]
       ELSE IF /\ n >= 3 /\ t[1] = "delete tasksByHandle[" /\ t[n] = "]"
               /\ IsDigits(SubSeq(t, 2, n - 1))
       THEN IF IsNumberLiteral(SubSeq(t, 2, n - 1))
            THEN [scope EXCEPT
                    !.tasksByHandle = Delete(byHandle, SubSeq(t, 2, n - 1))]
            ELSE throws
       ELSE IF t = <<"tasksByHandle = {}">>
       THEN [scope EXCEPT !.tasksByHandle = EmptyObject]
       ELSE IF /\ n >= 3 /\ t[1] = "tasksByHandle[" /\ t[n] = "].args = []"
               /\ IsDigits(SubSeq(t, 2, n - 1))
       THEN LET key == SubSeq(t, 2, n - 1)
                target == Get(byHandle, key)
            IN IF ~IsNumberLiteral(key) \/ ~Truthy(target) THEN throws
               ELSE IF IsTask(target)
               THEN [scope EXCEPT
                        !.tasksByHandle =
                            [k \in DOMAIN byHandle |->
                                IF /\ IsTask(byHandle[k])
                                   /\ byHandle[k].call = target.call
                                THEN Created(Task(target.handler, <<>>),
                                             target.call)
                                ELSE byHandle[k]]]
               ELSE scope
       ELSE IF /\ n >= 5 /\ t[1] = "tasksByHandle[" /\ t[n] = "]"
               /\ \E i \in 3..n - 2 :
                    /\ t[i] = "] = tasksByHandle["
                    /\ IsDigits(SubSeq(t, 2, i - 1))
                    /\ IsDigits(SubSeq(t, i + 1, n - 1))
       THEN LET i == CHOOSE j \in 3..n - 2 : t[j] = "] = tasksByHandle["
                to == SubSeq(t, 2, i - 1)
                from == SubSeq(t, i + 1, n - 1)
            IN IF IsNumberLiteral(to) /\ IsNumberLiteral(from)
               THEN [scope EXCEPT
                       !.tasksByHandle = Put(byHandle, to, Get(byHandle, from))]
               ELSE throws
       \* the parameter of the outer closure (line 18) is assigned
       ELSE IF t = <<"global = null">>
       THEN [scope EXCEPT !.global = "null"]
       \* lines 111-146 run again: another prefix, another onGlobalMessage
       \* registered on global (reading global.addEventListener raises a
       \* TypeError when global is null), setImmediate bound to a new
       \* function.  Described where the postMessage implementation is the
       \* one in use; elsewhere the text replaces the implementation in use
       \* by it, a change of which nothing is said here.
       ELSE IF t = <<"installPostMessageImplementation(attachTo)">>
       THEN IF scope.installed.setImmediate # "postMessage" THEN unknown
            ELSE IF scope.global = "null" THEN throws
            ELSE LET prefix == PrefixLiteral \o scope.random
                 IN [scope EXCEPT
                        !.MESSAGE_PREFIX = prefix,
                        !.prefixes = Append(@, prefix),
                        !.listeners = listenersAfterInstall("postMessage", @),
                        !.installed = [@ EXCEPT !.setImmediate = "postMessage"]]
       \* the installed clearImmediate, found through the global object (line
       \* 59), where the host has none of its own that could be found first
       ELSE IF /\ n >= 3 /\ t[1] = "clearImmediate(" /\ t[n] = ")"
               /\ IsDigits(SubSeq(t, 2, n - 1))
       THEN LET key == SubSeq(t, 2, n - 1)
            IN IF ~IsNumberLiteral(key) THEN throws
               ELSE IF \/ scope.installed.clearImmediate # "tasks.remove"
                       \/ scope.host.clearImmediate
               THEN unknown
               ELSE [scope EXCEPT
                       !.tasksByHandle = Delete(byHandle, key),
                       !.cancelled =
                           @ \cup CancelledBy(byHandle, StringToNumber(key),
                                              scope.self)]
       ELSE IF IsHarmless(t, names) THEN scope
       ELSE IF Throws(t) THEN throws
       ELSE unknown

\* tasks.addFromSetImmediateArguments: the handle it returns and the registry
\* it leaves.
addFromSetImmediateArguments(args) ==
    LET handler == IF Len(args) > 0 THEN args[1] ELSE Undefined
        argsToHandle == Slice(args, 1)
        task == Task(handler, argsToHandle)
        thisHandle == nextHandle
    IN [handle |-> thisHandle,
        nextHandle |-> nextHandle + 1,
        tasksByHandle |-> Put(tasksByHandle, ToPropertyKey(Num(thisHandle)),
                              Created(task, Len(minted) + 1))]

\* tasks.runIfPresent after task.run() has returned: delete the entry.
runIfPresentAfterRun(byHandle, key) == Delete(byHandle, key)

\* The numbers a later call of Math.random() may yield: none of those drawn
\* for a listener already registered.
FreshRandomTexts ==
    { r \in LaterRandomTexts :
        \A i \in DOMAIN prefixes : prefixes[i] # PrefixLiteral \o r }

\* tasks.runIfPresent.  The lookup tasksByHandle[handle] also finds what the
\* object inherits; such a value is not a Task and calling its run raises a
\* TypeError.  A handler that is a function is entered and the step ends
\* there: its body is user code, which returns or throws in a later step.  A
\* handler that is text is evaluated to its end in this step, and the entry
\* deleted unless the text threw.
runIfPresent(handle) ==
    LET key == ToPropertyKey(handle)
        task == Get(tasksByHandle, key)
    IN IF ~Truthy(task)
       THEN /\ raised' = "none"
            /\ UNCHANGED runVars
       ELSE IF ~IsTask(task)
       THEN /\ raised' = "TypeError"
            /\ UNCHANGED runVars
       ELSE LET run == Task_run(task)
            IN /\ calls' = [calls EXCEPT ![task.call] = Append(@, run)]
               /\ IF run.mode = "apply"
                  THEN /\ stack' = "callback"
                       /\ running' = key
                       /\ raised' = "none"
                       /\ UNCHANGED <<nextHandle, tasksByHandle, closureVars,
                                      cancelled>>
                  ELSE \E random \in FreshRandomTexts :
                       LET after == Eval(run.callee, Scope(task, random))
                       IN /\ after.understood
                          /\ nextHandle' = after.nextHandle
                          /\ tasksByHandle' =
                                IF after.threw THEN after.tasksByHandle
                                ELSE runIfPresentAfterRun(after.tasksByHandle,
                                                          key)
                          /\ global' = after.global
                          /\ installed' = after.installed
                          /\ listeners' = after.listeners
                          /\ prefixes' = after.prefixes
                          /\ MESSAGE_PREFIX' = after.MESSAGE_PREFIX
                          /\ cancelled' = after.cancelled
                          /\ raised' = IF after.threw THEN "handler"
                                       ELSE "none"
                          /\ UNCHANGED <<stack, running>>

\* tasks.remove.
remove(handle) == Delete(tasksByHandle, ToPropertyKey(handle))

----------------------------------------------------------------------------
(* The three implementations of setImmediate.                              *)

\* new global.MessageChannel(), global.postMessage and global.setTimeout
\* read a property of global: a TypeError when global is null.
GlobalIsNull == global = "null"

\* channel.port2.postMessage() is called without a message: a port that
\* requires one raises a TypeError and holds nothing.
PortThrows == host.portRequiresMessage

\* What each implementation hands to the host after registering the task.
ArmMessageChannel(handle) ==
    IF GlobalIsNull \/ PortThrows THEN <<>> ELSE <<Port(handle)>>
ArmPostMessage(handle) ==
    IF GlobalIsNull THEN <<>>
    ELSE <<Message("global", Str(MESSAGE_PREFIX \o NumberToString(handle)))>>
ArmSetTimeout(handle) == IF GlobalIsNull THEN <<>> ELSE <<Timer(handle)>>

Arm(handle) ==
    IF installed.setImmediate = "MessageChannel" THEN ArmMessageChannel(handle)
    ELSE IF installed.setImmediate = "postMessage" THEN ArmPostMessage(handle)
    ELSE ArmSetTimeout(handle)

\* The call that arms the trigger raises, and setImmediate with it.
ArmThrows ==
    GlobalIsNull \/ (installed.setImmediate = "MessageChannel" /\ PortThrows)

InstalledTiers == {"MessageChannel", "postMessage", "setTimeout"}

\* User code is running: the page's script, another event handler, or a task.
UserCode == pc = "ready" /\ stack \in {"script", "callback"}

\* The calls made so far whose handler is source text.
Texts == {k \in DOMAIN requested : requested[k][1].type = "string"}
\* The handler is a function, or a text among those Eval describes on this
\* host.
Understood(handler) ==
    \/ handler.type = "function"
    \/ \A random \in LaterRandomTexts :
          Eval(Str(ToPropertyKey(handler)),
               Scope([call |-> 0], random)).understood
\* The calls a behaviour may still make.
MayCall(args) ==
    /\ Len(returned) < MaxHandle
    /\ args[1].type = "string" => Cardinality(Texts) < MaxTexts
    /\ Understood(args[1])

\* attachTo.setImmediate(args...), called by user code: the task is
\* registered, then the trigger armed, then the handle returned.
setImmediate(args) ==
    /\ UserCode
    /\ installed.setImmediate \in InstalledTiers
    /\ MayCall(args)
    /\ LET added == addFromSetImmediateArguments(args)
           handle == added.handle
       IN /\ nextHandle' = added.nextHandle
          /\ tasksByHandle' = added.tasksByHandle
          /\ queue' = queue \o Arm(handle)
          /\ minted' = Append(minted, handle)
          /\ returned' = Append(returned,
                                IF ArmThrows THEN NoHandle ELSE handle)
          /\ requested' = Append(requested, args)
          /\ calls' = Append(calls, <<>>)
    /\ raised' = IF ArmThrows THEN "TypeError" ELSE "none"
    /\ UNCHANGED <<pc, installVars, stack, running, cancelled>>

\* The events whose delivery calls tasks.runIfPresent(h): the port or the
\* timer armed for h, or a message carrying h after the prefix of a
\* registered listener and whose source is what that listener compares it
\* with, the value of global.
Triggers(h) ==
    IF installed.setImmediate = "MessageChannel" THEN {Port(h)}
    ELSE IF installed.setImmediate = "postMessage"
    THEN { Message(global, Str(prefixes[i] \o NumberToString(h))) :
             i \in DOMAIN prefixes }
    ELSE {Timer(h)}

Armed(h) == \E i \in DOMAIN queue : queue[i] \in Triggers(h)

\* attachTo.clearImmediate(h), called by user code.
clearImmediate(h) ==
    /\ UserCode
    /\ installed.clearImmediate = "tasks.remove"
    /\ tasksByHandle' = remove(Num(h))
    /\ cancelled' = cancelled \cup CancelledBy(tasksByHandle, h, 0)
    /\ raised' = "none"
    /\ UNCHANGED <<pc, installVars, nextHandle, queue, stack, running,
                   history, calls>>

----------------------------------------------------------------------------
(* The host's event loop.                                                  *)

\* isStringAndStartsWith.
isStringAndStartsWith(string, putativeStart) ==
    /\ string.type = "string"
    /\ SubstringTo(string.chars, Len(putativeStart)) = putativeStart

\* The test of line 126, in the listener whose prefix is prefix.
Accepts(event, prefix) ==
    event.source = global /\ isStringAndStartsWith(event.data, prefix)

\* onGlobalMessage, the listener of the postMessage implementation installed
\* with prefix.
onGlobalMessage(event, prefix) ==
    IF Accepts(event, prefix)
    THEN LET handle == Str(SubstringFrom(event.data.chars, Len(prefix)))
         IN runIfPresent(handle)
    ELSE /\ raised' = "none"
         /\ UNCHANGED runVars

\* The host dispatches a message event to the listeners on global, in the
\* order they were registered.  Their prefixes end in different numbers,
\* none the start of another, so at most one of them lets the event past
\* line 126.
DispatchMessage(event) ==
    LET heard == {i \in DOMAIN prefixes : Accepts(event, prefixes[i])}
    IN IF heard # {}
       THEN onGlobalMessage(event,
                            prefixes[CHOOSE i \in heard :
                                        \A j \in heard : i <= j])
       ELSE /\ raised' = "none"
            /\ UNCHANGED runVars

\* The listener each held event is delivered to.
Deliver(event) ==
    IF event.kind = "message" THEN DispatchMessage(event)
    ELSE runIfPresent(Num(event.handle))

\* The host starts a turn with an event it holds: timers and posted messages
\* in the order they were armed, ports in any order.
Fire(i) ==
    /\ pc = "ready"
    /\ stack = "idle"
    /\ i \in DOMAIN queue
    /\ queue[i].kind = "port" \/ i = 1
    /\ queue' = RemoveAt(queue, i)
    /\ Deliver(queue[i])
    /\ UNCHANGED <<pc, hostVars, history>>

\* Messages that reach the window other than by a setImmediate call: another
\* window's, one with no source (event.source is null), or this window's own
\* that carry no handle after the prefix of a listener.
Payloads ==
    { Obj, Str(<<>>), Str(<<"1">>), Str(PrefixLiteral),
      Str(PrefixLiteral \o <<"0", ".", "7", "1">>),
      Str(MESSAGE_PREFIX \o <<"1">>), Str(MESSAGE_PREFIX \o <<"2">>),
      Str(MESSAGE_PREFIX \o <<"constructor">>),
      Str(MESSAGE_PREFIX \o <<"isPrototypeOf">>) }
ForeignMessages ==
    { m \in { Message(src, d) : src \in {"global", "otherWindow", "null"},
                                d \in Payloads } :
        m.source = "global" =>
            \A k \in 0..MaxHandle + 1 : \A i \in DOMAIN prefixes :
                m.data # Str(prefixes[i] \o NumberToString(k)) }

\* The number of invocations made so far.
RECURSIVE Runs(_)
Runs(invocations) ==
    IF invocations = <<>> THEN 0
    ELSE Len(Head(invocations)) + Runs(Tail(invocations))

\* Such a message arrives.  One that a listener lets past line 126 can be
\* sent again and again: a behaviour has at most MaxRuns invocations before
\* the last of them.
ForeignMessage(m) ==
    /\ pc = "ready"
    /\ stack = "idle"
    /\ installed.setImmediate = "postMessage"
    /\ (\E i \in DOMAIN prefixes : Accepts(m, prefixes[i]))
            => Runs(calls) < MaxRuns
    /\ DispatchMessage(m)
    /\ UNCHANGED <<pc, hostVars, queue, history>>

\* The handler returns: runIfPresent deletes the entry and the turn ends.
CallbackReturn ==
    /\ stack = "callback"
    /\ tasksByHandle' = runIfPresentAfterRun(tasksByHandle, running)
    /\ stack' = "idle"
    /\ running' = <<>>
    /\ raised' = "none"
    /\ UNCHANGED <<pc, installVars, nextHandle, queue, history,
                   calls, cancelled>>

\* The handler throws: the exception leaves runIfPresent and the turn ends.
CallbackThrow ==
    /\ stack = "callback"
    /\ stack' = "idle"
    /\ running' = <<>>
    /\ raised' = "handler"
    /\ UNCHANGED <<pc, installVars, nextHandle, tasksByHandle, queue, history,
                   calls, cancelled>>

\* The user code of a turn ends; the host starts a turn of other user code.
EndTurn ==
    /\ pc = "ready"
    /\ stack = "script"
    /\ stack' = "idle"
    /\ UNCHANGED <<pc, installVars, nextHandle, tasksByHandle, queue, running,
                   raised, history, calls, cancelled>>

BeginTurn ==
    /\ pc = "ready"
    /\ stack = "idle"
    /\ stack' = "script"
    /\ UNCHANGED <<pc, installVars, nextHandle, tasksByHandle, queue, running,
                   raised, history, calls, cancelled>>

Init == InitOn(SchedulerHosts)

Next ==
    \/ Install
    \/ \E args \in SetImmediateCalls : setImmediate(args)
    \/ \E h \in 1..MaxHandle + 1 : clearImmediate(h)
    \/ \E i \in 1..MaxHandle + 1 : Fire(i)
    \/ \E m \in ForeignMessages : ForeignMessage(m)
    \/ CallbackReturn
    \/ CallbackThrow
    \/ EndTurn
    \/ BeginTurn

Spec == Init /\ [][Next]_vars

\* Every host, and the installation alone.
InstallInit == InitOn(AllHosts)
InstallNext == Install
InstallSpec == InstallInit /\ [][InstallNext]_vars

\* The registry driven directly: tasks.runIfPresent called for any handle,
\* any number of times, in place of the host's deliveries.
CallRunIfPresent(h) ==
    /\ pc = "ready"
    /\ stack = "idle"
    /\ IsTask(Get(tasksByHandle, NumberToString(h))) => Runs(calls) < MaxRuns
    /\ runIfPresent(Num(h))
    /\ UNCHANGED <<pc, hostVars, queue, history>>

RegistryNext ==
    \/ Install
    \/ \E args \in RegistryCalls : setImmediate(args)
    \/ \E h \in 1..MaxHandle + 1 : clearImmediate(h)
    \/ \E h \in 1..MaxHandle + 1 : CallRunIfPresent(h)
    \/ CallbackReturn
    \/ CallbackThrow
    \/ EndTurn
    \/ BeginTurn
RegistryInit == InitOn({TimerHost})
RegistrySpec == RegistryInit /\ [][RegistryNext]_vars

\* The host's scheduling: the script and every handler run to completion, and
\* the host goes on delivering the events it holds.
Fairness ==
    /\ WF_vars(Install)
    /\ WF_vars(EndTurn)
    /\ WF_vars(CallbackReturn \/ CallbackThrow)
    /\ SF_vars(\E i \in 1..MaxHandle + 1 : Fire(i))
\* The same steps under that scheduling.
FairNext ==
    \/ Install
    \/ \E args \in SetImmediateCalls : setImmediate(args)
    \/ \E h \in 1..MaxHandle : clearImmediate(h)
    \/ \E i \in 1..MaxHandle + 1 : Fire(i)
    \/ \E m \in ForeignMessages : ForeignMessage(m)
    \/ CallbackReturn
    \/ CallbackThrow
    \/ EndTurn
    \/ BeginTurn
FairSpec == Init /\ [][FairNext]_vars /\ Fairness

----------------------------------------------------------------------------
(* Properties.                                                             *)

Key(h) == NumberToString(h)
Handles == 1..MaxHandle + 1
\* setImmediate calls are told apart by their number: the k-th call.
Calls == 1..MaxHandle + 1
Made(k) == k \in DOMAIN returned
\* A task is kept under h.
Registered(h) ==
    Key(h) \in DOMAIN tasksByHandle /\ IsTask(tasksByHandle[Key(h)])
\* The Pending Set: the names under which a task is kept, with their tasks.
PendingSet ==
    [key \in {k \in DOMAIN tasksByHandle : IsTask(tasksByHandle[k])} |->
        tasksByHandle[key]]
\* The task of the k-th call is the one registered under its handle.
Pending(k) ==
    /\ Made(k)
    /\ Registered(minted[k])
    /\ tasksByHandle[Key(minted[k])].call = k
Invocations(k) == IF Made(k) THEN Len(calls[k]) ELSE 0

\* C1: a task cleared after setImmediate returned its handle and before it
\* was invoked is never invoked, in any later state, in each installed tier.
C1_CancelledNeverRuns == \A k \in cancelled : Invocations(k) = 0

\* C2: the handler registered by a setImmediate call is invoked at most once.
C2_AtMostOnce == \A k \in Calls : Invocations(k) <= 1

\* C3: under the host's fair delivery, the task of every setImmediate call is
\* eventually either cleared before it was invoked or invoked, and then stays
\* invoked exactly once.
C3_EventuallyRunsOnce ==
    \A k \in 1..MaxHandle :
        Made(k) ~> (k \in cancelled \/ [](Invocations(k) = 1))

\* C4: the step in which setImmediate returns a handle leaves the task
\* registered, its trigger armed and its handler not invoked, with control
\* still in the caller; a handler is only ever entered by a step in which
\* the idle host delivers an event it held.
C4_NeverSynchronous ==
    [][ /\ \A k \in Calls :
            (Len(returned') = k /\ Len(returned) < k
                /\ returned'[k] # NoHandle) =>
                /\ Invocations(k)' = 0
                /\ Pending(k)'
                /\ Armed(returned[k])'
                /\ stack' = stack /\ stack \in {"script", "callback"}
        /\ \A k \in Calls :
            Invocations(k)' > Invocations(k) =>
                /\ stack = "idle"
                /\ Armed(minted[k]) /\ Len(queue') = Len(queue) - 1 ]_vars

\* C5: the k-th call of setImmediate returns k.
C5_HandlesCount == \A k \in DOMAIN returned : returned[k] = k

\* C6: clearImmediate of a handle that was never issued, or whose every task
\* was already cleared or has already run, raises nothing, invokes nothing
\* and changes neither the registry nor the next handle; and an event
\* delivered for a name under which no task is registered raises nothing,
\* invokes nothing and changes nothing.
C6_AbsentIsNoOp ==
    [][ /\ \A h \in Handles :
            ( /\ clearImmediate(h)
              /\ running # Key(h)
              /\ \A k \in DOMAIN returned :
                    returned[k] = h =>
                        (k \in cancelled \/ Invocations(k) >= 1) )
            => /\ UNCHANGED <<PendingSet, nextHandle, calls>>
               /\ raised' = "none"
        /\ \A i \in DOMAIN queue : \A h \in Handles :
            (Fire(i) /\ queue[i] \in Triggers(h) /\ ~Registered(h))
            => /\ UNCHANGED <<PendingSet, nextHandle, calls, stack>>
               /\ raised' = "none"
        /\ \A m \in ForeignMessages :
            ForeignMessage(m)
            => /\ UNCHANGED <<PendingSet, nextHandle, calls, stack>>
               /\ raised' = "none" ]_vars

----------------------------------------------------------------------------
(* Properties of the installation, over every host.                        *)

NativePair(h) ==
    \/ h.setImmediate /\ h.clearImmediate
    \/ h.msSetImmediate /\ h.msClearImmediate
BroadcastIsAsynchronous(h) ==
    h.postMessage /\ ~h.importScripts /\ ~h.postMessageSync
OwnPair(tier) == [setImmediate |-> tier, clearImmediate |-> "tasks.remove"]

\* C7: once the script has run, the functions in use are those of the first
\* tier of the order the host qualifies for: its native pair, then
\* MessageChannel, then asynchronous postMessage, then setTimeout.
C7_TierOrder ==
    pc = "ready" =>
        IF NativePair(host)
        THEN /\ installed.setImmediate \in {"native", "msSetImmediate"}
             /\ installed.clearImmediate \in {"native", "msClearImmediate"}
        ELSE IF host.MessageChannel THEN installed = OwnPair("MessageChannel")
        ELSE IF BroadcastIsAsynchronous(host)
        THEN installed = OwnPair("postMessage")
        ELSE installed = OwnPair("setTimeout")

\* C8: on a host that has setImmediate and clearImmediate of its own the
\* script changes nothing: both stay the host's, no listener is added, no
\* probe message is posted, global.onmessage is what it was.
C8_NativeUntouched ==
    (pc = "ready" /\ host.setImmediate /\ host.clearImmediate) =>
        /\ installed = [setImmediate |-> "native", clearImmediate |-> "native"]
        /\ attachTo = "none"
        /\ listeners = 0
        /\ probes = 0
        /\ queue = <<>>
        /\ onmessage = host.onmessage
        /\ MESSAGE_PREFIX = <<>>

\* The script has run on a host with a native pair that also offers an
\* asynchronous postMessage and the Microsoft pair.
C8_Witness ==
    /\ pc = "ready"
    /\ host.setImmediate /\ host.clearImmediate
    /\ host.msSetImmediate /\ host.msClearImmediate
    /\ BroadcastIsAsynchronous(host) /\ ~host.MessageChannel
    /\ host.onmessage = "hostListener"

----------------------------------------------------------------------------

HasPrefix(chars) ==
    \E p \in DOMAIN prefixes :
        /\ Len(chars) >= Len(prefixes[p])
        /\ \A i \in 1..Len(prefixes[p]) : chars[i] = prefixes[p][i]
Unqualified(m) ==
    m.source # "global" \/ m.data.type # "string" \/ ~HasPrefix(m.data.chars)
ProbeMessage == Message("global", Str(<<>>))

\* C9: with the postMessage implementation installed, a message event whose
\* data does not start with the prefix of a registered listener or whose
\* source is not this window
\* invokes no handler and leaves the registry as it was: no step that changes
\* the registry, the invocations or the running handler is the receipt of
\* such a message.
C9_ForeignMessagesIgnored ==
    [][ ( /\ installed.setImmediate = "postMessage"
          /\ <<tasksByHandle, calls, stack, running>>'
                # <<tasksByHandle, calls, stack, running>> )
        => \A m \in ForeignMessages \cup {ProbeMessage} :
                Unqualified(m) =>
                    ~(ForeignMessage(m) \/ (Fire(1) /\ queue[1] = m)) ]_vars

\* C10: a handler that is a function is called with undefined as receiver
\* and exactly the arguments that followed it in the setImmediate call, in
\* their order.
C10_ArgumentForwarding ==
    \A k \in DOMAIN calls : \A i \in DOMAIN calls[k] :
        LET req == requested[k]
            call == calls[k][i]
        IN (Len(req) > 0 /\ req[1].type = "function") =>
            /\ call.mode = "apply"
            /\ call.callee = req[1]
            /\ call.thisArg = Undefined
            /\ Len(call.args) = Len(req) - 1
            /\ \A j \in 1..Len(call.args) : call.args[j] = req[j + 1]

----------------------------------------------------------------------------

\* C11: once the script has run, on every host, a schedule function and a
\* cancel function are both available.
C11_BothFunctionsPresent ==
    pc = "ready" =>
        /\ installed.setImmediate # "undefined"
        /\ installed.clearImmediate # "undefined"

\* C12: when the handler of h throws, the exception reaches the host and the
\* step in which it leaves runIfPresent leaves h out of the registry.
C12_RemovedWhenHandlerThrows ==
    [][ \A h \in Handles :
            (CallbackThrow /\ running = Key(h))
            => (raised' = "handler" /\ ~Registered(h)') ]_vars

\* C13: a handle whose task is not executing is registered exactly when it
\* has been issued and the task issued under it has neither run nor been
\* cleared.
C13_PendingSetInvariant ==
    \A h \in Handles :
        running # Key(h) =>
            (Registered(h) <=>
                \E k \in DOMAIN returned :
                    /\ returned[k] = h
                    /\ Invocations(k) = 0
                    /\ k \notin cancelled)

\* C14: a call of runIfPresent for a handle every task of which an earlier
\* call has already run invokes nothing and leaves the registry as it was.
C14_SecondRunIsNoOp ==
    [][ \A h \in Handles :
            ( /\ CallRunIfPresent(h)
              /\ \E k \in DOMAIN minted : minted[k] = h
              /\ \A k \in DOMAIN minted :
                    minted[k] = h => Invocations(k) >= 1 )
            => UNCHANGED <<calls, PendingSet, stack, running>> ]_vars

FifoTiers == {"postMessage", "setTimeout"}

\* C15: with setTimeout or postMessage installed and the host delivering in
\* the order of arming, of two tasks never cleared the one scheduled later
\* is not invoked before the one scheduled earlier.
C15_ArmingOrder ==
    installed.setImmediate \in FifoTiers =>
        \A k1, k2 \in 1..MaxHandle :
            ( /\ k1 < k2 /\ Made(k1) /\ Made(k2)
              /\ k1 \notin cancelled /\ k2 \notin cancelled
              /\ Invocations(k2) >= 1 )
            => Invocations(k1) >= 1

\* C16: whatever setImmediate and clearImmediate calls have been made, one
\* onGlobalMessage listener is registered with the postMessage implementation
\* installed and none with any other.
C16_OneListener ==
    pc = "ready" =>
        listeners = IF installed.setImmediate = "postMessage" THEN 1 ELSE 0

\* The hosts on which the installation block reaches the postMessage probe.
Probed(h) ==
    /\ ~h.setImmediate
    /\ ~(h.msSetImmediate /\ h.msClearImmediate)
    /\ ~h.MessageChannel
    /\ h.postMessage /\ ~h.importScripts

\* C17: where the probe is made, a host that delivers the probe message
\* inside postMessage ends with the setTimeout implementation and a host that
\* does not ends with the postMessage implementation; either way the script
\* runs to its end with both functions installed.
C17_ProbeDecides ==
    (pc = "ready" /\ Probed(host)) =>
        /\ probes = 1
        /\ installed.setImmediate =
             IF host.postMessageSync THEN "setTimeout" ELSE "postMessage"
        /\ installed.clearImmediate = "tasks.remove"

\* The probe has answered no on a synchronous host.
C17_Witness ==
    /\ pc = "ready" /\ Probed(host) /\ host.postMessageSync
    /\ probes = 1 /\ installed.setImmediate = "setTimeout"
    /\ listeners = 0

\* C18: after a probe, whatever it answered, global.onmessage holds what it
\* held before and not the probe's listener.
C18_ProbeRestoresListener ==
    (pc = "ready" /\ probes >= 1) =>
        /\ onmessage = host.onmessage
        /\ onmessage # "probeListener"

\* A probe has been made on a synchronous host that had a listener of its
\* own in global.onmessage.
C18_Witness ==
    /\ pc = "ready" /\ probes = 1
    /\ host.onmessage = "hostListener" /\ onmessage = "hostListener"
    /\ host.postMessageSync

\* The run of the function registered under h ends in this step: it returns,
\* and line 55 deletes the entry, or it throws.
RunEnds(h) == stack = "callback" /\ running = Key(h) /\ stack' = "idle"

\* C19: the step that ends the run of the function registered under h
\* changes the registration of no other handle, removes h unless the handler
\* threw, and removes no task that has not been invoked; a setImmediate call
\* made by the running handler registers its task under a handle other than
\* h, invokes nothing, and the task is still registered when the run ends.
C19_OnlyTheRunTaskRemoved ==
    [][ \A h \in Handles :
            /\ RunEnds(h) =>
                /\ \A g \in Handles \ {h} :
                    /\ Registered(g)' <=> Registered(g)
                    /\ Registered(g) =>
                         tasksByHandle'[Key(g)] = tasksByHandle[Key(g)]
                /\ raised' = "none" => ~Registered(h)'
                /\ (Registered(h) /\ ~Registered(h)') =>
                        Invocations(tasksByHandle[Key(h)].call) >= 1
            /\ ( /\ stack = "callback" /\ running = Key(h)
                 /\ Len(returned') > Len(returned) ) =>
                    /\ minted'[Len(minted')] # h
                    /\ stack' = "callback" /\ running' = running
                    /\ calls' = Append(calls, <<>>)
                    /\ \A g \in Handles :
                        minted'[Len(minted')] = g => Registered(g)' ]_vars

\* C20: every registered handle whose task is not executing has its trigger
\* still held by the host; so with nothing held and nothing executing the
\* registry is empty.
C20_NeverStranded ==
    /\ \A h \in Handles : (Registered(h) /\ running # Key(h)) => Armed(h)
    /\ (pc = "ready" /\ queue = <<>> /\ stack # "callback")
            => DOMAIN PendingSet = {}

====
